---------------------------- MODULE Spec2Model ----------------------------
(***************************************************************************)
(* Webhook payload validation of client/hmac.go: ValidatePayload,          *)
(* PayloadSignature, extractHmacs and extractTokens.                       *)
(*                                                                         *)
(* Representation.  A byte string that the code only parses or compares    *)
(* (payload, secret store, secret value, repository name) is a sequence    *)
(* of lexemes, each lexeme a TLA+ string.  The signature header, whose      *)
(* bytes the code inspects one by one (prefix test, hex decoding), is a    *)
(* sequence of ASCII codes.  A digest is a sequence of bytes 0..255.       *)
(***************************************************************************)
EXTENDS Integers, Sequences, FiniteSets, TLC

\* ------------------------------------------------------------------ bounds

\* Largest number of secret records configured under one scope key.
MaxTokens == 2

\* Number of bytes of a digest (sha1.Size is 20; the model keeps the width small).
DigestLen == 1

\* ------------------------------------------------------------ byte strings

\* The secret values configured in stores, in provisioning (rotation) order.
SecretVals == <<"A", "B", "C">>

\* []byte(s) of a one-lexeme string.
Bytes(s) == <<s>>

\* The lexemes a scalar (a name, a key, a secret value) is made of.
ScalarLex == {"org", "repo", "other", "unrelated", "someorg", "/", "*",
              "A", "B", "C", "mysecret", "alice"}

\* ASCII codes of the literal "sha1=".
Sha1Prefix == <<115, 104, 97, 49, 61>>

\* ASCII codes of the literal "sha256=".
Sha256Prefix == <<115, 104, 97, 50, 53, 54, 61>>

\* HasPrefix with a slip: only the last character of the prefix (the "=") is
\* compared.
HasPrefixLoose(s, prefix) ==
    /\ Len(s) >= Len(prefix)
    /\ s[Len(prefix)] = prefix[Len(prefix)]

\* strings.HasPrefix(s, prefix)
HasPrefix(s, prefix) ==
    /\ Len(s) >= Len(prefix)
    /\ SubSeq(s, 1, Len(prefix)) = prefix

\* hex.EncodeToString: two lowercase hex digits per byte, high nibble first.
HexChar(n) == IF n < 10 THEN 48 + n ELSE 87 + n

EncodeToString(bs) ==
    [i \in 1..(2 * Len(bs)) |->
        IF i % 2 = 1 THEN HexChar(bs[(i + 1) \div 2] \div 16)
                     ELSE HexChar(bs[i \div 2] % 16)]

\* fromHexChar with a slip: the upper-case digits A-F are not accepted.
FromHexCharLower(c) ==
    IF c >= 48 /\ c <= 57 THEN c - 48
    ELSE IF c >= 97 /\ c <= 102 THEN c - 87
    ELSE -1

\* encoding/hex fromHexChar: digits, a-f and A-F are accepted; -1 is "invalid".
FromHexChar(c) ==
    IF c >= 48 /\ c <= 57 THEN c - 48
    ELSE IF c >= 97 /\ c <= 102 THEN c - 87
    ELSE IF c >= 65 /\ c <= 70 THEN c - 55
    ELSE -1

\* hex.DecodeString: an error on an odd length or on any byte that is no hex digit.
DecodeString(s) ==
    IF Len(s) % 2 = 1 \/ \E i \in 1..Len(s) : FromHexChar(s[i]) = -1
    THEN [err |-> TRUE, bytes |-> <<>>]
    ELSE [err |-> FALSE,
          bytes |-> [i \in 1..(Len(s) \div 2) |->
                        16 * FromHexChar(s[2 * i - 1]) + FromHexChar(s[2 * i])]]


\* ------------------------------------------------- crypto/hmac with sha1.New

\* Every key an HMAC is computed with: a configured secret value, or the whole
\* content of a store (a legacy token; or, by a sender who takes it for one, the
\* empty file, the empty mapping, a mapping that names another organization).
KeyList ==
    << Bytes("A"), Bytes("B"), Bytes("C"), Bytes("mysecret"),
       <<"{", "org", ":">>, <<"{", "org", ":", "A", "}">>,
       <<>>, <<"{", "}">>,
       <<"{", "someorg", ":", "[", "{", "value", ":", "A", "}", "]", "}">> >>

\* ------------------------------------------------------- the event payload

\* A well-formed event payload naming the repository `name`.
EventPayload(name) ==
    <<"{", "repository", ":", "{", "full_name", ":">> \o name \o <<"}", "}">>

\* The same, preceded by the sender member.
EventPayloadWithSender(name) ==
    <<"{", "sender", ":", "{", "login", ":", "alice", "}", ",",
      "repository", ":", "{", "full_name", ":">> \o name \o <<"}", "}">>

\* The payloads requests carry: three events, two JSON objects without a
\* repository name, a truncated document and a repository of the wrong type.
PayloadList ==
    << EventPayload(<<"org", "/", "repo">>),
       EventPayloadWithSender(<<"org", "/", "other">>),
       EventPayload(<<"unrelated", "/", "repo">>),
       <<"{", "}">>,
       <<"{", "repository", ":", "{", "}", "}">>,
       <<"{", "repository", ":", "{", "full_name", ":", "org">>,
       <<"{", "repository", ":", "org", "}">> >>

Payloads == {PayloadList[i] : i \in 1..Len(PayloadList)}

IndexIn(list, x) == CHOOSE i \in 1..Len(list) : list[i] = x

\* mac := hmac.New(sha1.New, key); mac.Write(payload); mac.Sum(nil).
\* The keyed hash is idealised: a fixed function of (key, payload) that is
\* collision-free on the keys and payloads of the model.  Byte 1 is a bijective
\* scrambling of the pair's code, the other bytes are derived from it.
HmacSum(key, payload) ==
    LET code == (IndexIn(KeyList, key) - 1) * Len(PayloadList)
                    + (IndexIn(PayloadList, payload) - 1)
    IN  [j \in 1..DigestLen |-> (code * (36 + j) + 170 + j) % 256]

\* The end of the run of scalar lexemes that starts at t[i].
RECURSIVE ScanScalar(_, _)
ScanScalar(t, i) ==
    IF i <= Len(t) /\ t[i] \in ScalarLex THEN ScanScalar(t, i + 1) ELSE i

JsonFail == [err |-> TRUE, FullName |-> <<>>, Login |-> <<>>, next |-> 0]

\* One JSON object with at most the one string member `field`, starting at t[i]
\* (the github.Repository and github.User views: every field is a pointer, here
\* a sequence of length 0 or 1).
JsonObjectWith(t, i, field) ==
    IF i + 1 <= Len(t) /\ t[i] = "{" /\ t[i + 1] = "}"
    THEN [err |-> FALSE, val |-> <<>>, next |-> i + 2]
    ELSE IF i + 3 <= Len(t) /\ t[i] = "{" /\ t[i + 1] = field /\ t[i + 2] = ":"
    THEN LET j == ScanScalar(t, i + 3)
         IN  IF j > i + 3 /\ j <= Len(t) /\ t[j] = "}"
             THEN [err |-> FALSE, val |-> <<SubSeq(t, i + 3, j - 1)>>, next |-> j + 1]
             ELSE [err |-> TRUE, val |-> <<>>, next |-> 0]
    ELSE [err |-> TRUE, val |-> <<>>, next |-> 0]

\* The members of the event object from t[i] on, up to and including its "}".
RECURSIVE JsonMembers(_, _, _)
JsonMembers(t, i, ev) ==
    IF i + 2 > Len(t) \/ t[i + 1] # ":" \/ t[i] \notin {"repository", "sender"}
    THEN JsonFail
    ELSE LET o  == JsonObjectWith(t, i + 2, IF t[i] = "repository" THEN "full_name" ELSE "login")
             e2 == IF t[i] = "repository" THEN [ev EXCEPT !.FullName = o.val]
                                          ELSE [ev EXCEPT !.Login = o.val]
         IN  IF o.err \/ o.next > Len(t) THEN JsonFail
             ELSE IF t[o.next] = "}" THEN [e2 EXCEPT !.next = o.next + 1]
             ELSE IF t[o.next] = "," THEN JsonMembers(t, o.next + 1, e2)
             ELSE JsonFail

\* json.Unmarshal with a slip: the error is dropped and the event left as it is.
JsonUnmarshalLenient(payload) ==
    LET ev0 == [err |-> FALSE, FullName |-> <<>>, Login |-> <<>>, next |-> 0]
        r   == IF Len(payload) >= 2 /\ payload[1] = "{"
               THEN IF payload[2] = "}" THEN [ev0 EXCEPT !.next = 3]
                    ELSE JsonMembers(payload, 2, ev0)
               ELSE JsonFail
    IN  IF r.err \/ r.next # Len(payload) + 1 THEN ev0 ELSE r

\* json.Unmarshal(payload, &event) into genericEvent.
JsonUnmarshal(payload) ==
    LET ev0 == [err |-> FALSE, FullName |-> <<>>, Login |-> <<>>, next |-> 0]
        r   == IF Len(payload) >= 2 /\ payload[1] = "{"
               THEN IF payload[2] = "}" THEN [ev0 EXCEPT !.next = 3]
                    ELSE JsonMembers(payload, 2, ev0)
               ELSE JsonFail
    IN  IF r.err \/ r.next # Len(payload) + 1 THEN JsonFail ELSE r

\* event.Repo.GetFullName(): the empty string when the field is nil.
GetFullName(event) ==
    IF event.FullName = <<>> THEN <<>> ELSE event.FullName[1]

\* -------------------------------------------------------- the secret store

\* The scope keys stores are written with: a repository, its organization,
\* the global wildcard, and an organization no request comes from.
ScopeKeys == << <<"org", "/", "repo">>, <<"org">>, <<"*">>, <<"someorg">> >>

\* The record lists a scope is configured with: no record, one secret, or the
\* first n secrets in rotation order, n at most MaxTokens.
TokenLists ==
    {<<>>} \cup {<<SecretVals[i]>> : i \in 1..Len(SecretVals)}
           \cup {SubSeq(SecretVals, 1, n) : n \in 1..MaxTokens}

\* The document of one scope: key: [{value: v1}, {value: v2}].
RECURSIVE RenderRecords(_, _)
RenderRecords(vals, i) ==
    IF i > Len(vals) THEN <<>>
    ELSE (IF i > 1 THEN <<",">> ELSE <<>>)
            \o <<"{", "value", ":", vals[i], "}">> \o RenderRecords(vals, i + 1)

\* The hierarchical document of a scope map m (a function from some of the
\* ScopeKeys to record lists), its keys in the order of ScopeKeys.
RECURSIVE RenderScopes(_, _, _)
RenderScopes(m, i, first) ==
    IF i > Len(ScopeKeys) THEN <<>>
    ELSE IF ScopeKeys[i] \notin DOMAIN m THEN RenderScopes(m, i + 1, first)
    ELSE (IF first THEN <<>> ELSE <<",">>)
            \o ScopeKeys[i] \o <<":", "[">> \o RenderRecords(m[ScopeKeys[i]], 1) \o <<"]">>
            \o RenderScopes(m, i + 1, FALSE)

RenderStore(m) == <<"{">> \o RenderScopes(m, 1, TRUE) \o <<"}">>

YamlFail == [err |-> TRUE, map |-> <<>>, next |-> 0]

\* The records of one scope from t[i] on, up to and including the "]"; each
\* record is {value: v} and becomes an hmacSecret, of which Value is kept.
RECURSIVE YamlRecords(_, _, _)
YamlRecords(t, i, acc) ==
    IF i <= Len(t) /\ t[i] = "]" /\ acc = <<>>
    THEN [err |-> FALSE, val |-> acc, next |-> i + 1]
    ELSE IF i + 5 <= Len(t) /\ t[i] = "{" /\ t[i + 1] = "value" /\ t[i + 2] = ":"
            /\ t[i + 3] \in ScalarLex /\ t[i + 4] = "}"
    THEN LET acc2 == Append(acc, [Value |-> t[i + 3]])
         IN  IF t[i + 5] = "]" THEN [err |-> FALSE, val |-> acc2, next |-> i + 6]
             ELSE IF t[i + 5] = "," THEN YamlRecords(t, i + 6, acc2)
             ELSE [err |-> TRUE, val |-> <<>>, next |-> 0]
    ELSE [err |-> TRUE, val |-> <<>>, next |-> 0]

\* The scopes of the mapping from t[i] on, up to and including the "}".
\* m is the map built so far; a repeated key keeps its last value.
RECURSIVE YamlScopes(_, _, _)
YamlScopes(t, i, m) ==
    LET j == ScanScalar(t, i)
    IN  IF j = i \/ j + 1 > Len(t) \/ t[j] # ":" \/ t[j + 1] # "["
        THEN YamlFail
        ELSE LET key == SubSeq(t, i, j - 1)
                 r   == YamlRecords(t, j + 2, <<>>)
                 m2  == [k \in DOMAIN m \cup {key} |-> IF k = key THEN r.val ELSE m[k]]
             IN  IF r.err \/ r.next > Len(t) THEN YamlFail
                 ELSE IF t[r.next] = "}" THEN [err |-> FALSE, map |-> m2, next |-> r.next + 1]
                 ELSE IF t[r.next] = "," THEN YamlScopes(t, r.next + 1, m2)
                 ELSE YamlFail

\* yaml.Unmarshal(t, &repoToTokenMap) into map[string]hmacsForRepo.  The empty
\* document is YAML null and leaves the map empty without an error; a scalar,
\* a truncated mapping or a mapping whose values are no record lists is an error.
YamlUnmarshal(t) ==
    LET none == [k \in {} |-> <<>>]
        r    == IF t = <<>> THEN [err |-> FALSE, map |-> none, next |-> 1]
                ELSE IF Len(t) >= 2 /\ t[1] = "{"
                THEN IF t[2] = "}" THEN [err |-> FALSE, map |-> none, next |-> 3]
                     ELSE YamlScopes(t, 2, none)
                ELSE YamlFail
    IN  IF r.err \/ r.next # Len(t) + 1 THEN YamlFail ELSE r

\* strings.Split(repo, "/")[0]: the part before the first "/", the whole name
\* when it has none.
RECURSIVE SplitFirst(_, _)
SplitFirst(repo, i) ==
    IF i > Len(repo) \/ repo[i] = "/" THEN SubSeq(repo, 1, i - 1)
    ELSE SplitFirst(repo, i + 1)

\* extractTokens: the Value of every record, in order, as bytes.
extractTokens(allTokens) ==
    [i \in 1..Len(allTokens) |-> Bytes(allTokens[i].Value)]

\* The lookups with a slip: the organization is looked up before the repository.
lookupTokensOrgFirst(repoToTokenMap, repo, orgName) ==
    IF orgName \in DOMAIN repoToTokenMap
    THEN [err |-> FALSE, hmacs |-> extractTokens(repoToTokenMap[orgName])]
    ELSE IF repo \in DOMAIN repoToTokenMap
    THEN [err |-> FALSE, hmacs |-> extractTokens(repoToTokenMap[repo])]
    ELSE IF <<"*">> \in DOMAIN repoToTokenMap
    THEN [err |-> FALSE, hmacs |-> extractTokens(repoToTokenMap[<<"*">>])]
    ELSE [err |-> TRUE, hmacs |-> <<>>]

\* The lookups with a slip: no applicable scope is no error (return nil, nil).
lookupTokensNoError(repoToTokenMap, repo, orgName) ==
    IF repo \in DOMAIN repoToTokenMap
    THEN [err |-> FALSE, hmacs |-> extractTokens(repoToTokenMap[repo])]
    ELSE IF orgName \in DOMAIN repoToTokenMap
    THEN [err |-> FALSE, hmacs |-> extractTokens(repoToTokenMap[orgName])]
    ELSE IF <<"*">> \in DOMAIN repoToTokenMap
    THEN [err |-> FALSE, hmacs |-> extractTokens(repoToTokenMap[<<"*">>])]
    ELSE [err |-> FALSE, hmacs |-> <<>>]

\* The lookups with a slip: a scope without records is passed over
\* (ok && len(val) > 0).
lookupTokensSkipEmpty(repoToTokenMap, repo, orgName) ==
    IF repo \in DOMAIN repoToTokenMap /\ repoToTokenMap[repo] # <<>>
    THEN [err |-> FALSE, hmacs |-> extractTokens(repoToTokenMap[repo])]
    ELSE IF orgName \in DOMAIN repoToTokenMap /\ repoToTokenMap[orgName] # <<>>
    THEN [err |-> FALSE, hmacs |-> extractTokens(repoToTokenMap[orgName])]
    ELSE IF <<"*">> \in DOMAIN repoToTokenMap
    THEN [err |-> FALSE, hmacs |-> extractTokens(repoToTokenMap[<<"*">>])]
    ELSE [err |-> TRUE, hmacs |-> <<>>]

\* The three lookups of extractHmacs in repoToTokenMap and its final error.
lookupTokens(repoToTokenMap, repo, orgName) ==
    IF repo \in DOMAIN repoToTokenMap
    THEN [err |-> FALSE, hmacs |-> extractTokens(repoToTokenMap[repo])]
    ELSE IF orgName \in DOMAIN repoToTokenMap
    THEN [err |-> FALSE, hmacs |-> extractTokens(repoToTokenMap[orgName])]
    ELSE IF <<"*">> \in DOMAIN repoToTokenMap
    THEN [err |-> FALSE, hmacs |-> extractTokens(repoToTokenMap[<<"*">>])]
    ELSE [err |-> TRUE, hmacs |-> <<>>]

\* extractHmacs with a slip: a store that does not parse is an error.
extractHmacsStrict(repo, t) ==
    LET y == YamlUnmarshal(t)
        r == lookupTokens(y.map, repo, SplitFirst(repo, 1))
    IN  IF y.err THEN [err |-> TRUE, hmacs |-> <<>>, calls |-> 1]
        ELSE [err |-> r.err, hmacs |-> r.hmacs, calls |-> 1]

\* extractHmacs with a slip: the legacy branch invokes tokenGenerator again
\* (return [][]byte{tokenGenerator()}, nil).
extractHmacsTwice(repo, t) ==
    LET y == YamlUnmarshal(t)
        r == lookupTokens(y.map, repo, SplitFirst(repo, 1))
    IN  IF y.err THEN [err |-> FALSE, hmacs |-> <<t>>, calls |-> 2]
        ELSE [err |-> r.err, hmacs |-> r.hmacs, calls |-> 1]

\* extractHmacs(repo, tokenGenerator), with t the bytes tokenGenerator returns.
\* calls counts the invocations of tokenGenerator.
extractHmacs(repo, t) ==
    LET y == YamlUnmarshal(t)
        r == lookupTokens(y.map, repo, SplitFirst(repo, 1))
    IN  IF y.err THEN [err |-> FALSE, hmacs |-> <<t>>, calls |-> 1]
        ELSE [err |-> r.err, hmacs |-> r.hmacs, calls |-> 1]

\* ------------------------------------------------------- the two functions

\* PayloadSignature with a slip: the "sha1=" prefix is left out.
PayloadSignatureBare(payload, key) ==
    EncodeToString(HmacSum(key, payload))

\* PayloadSignature(payload, key)
PayloadSignature(payload, key) ==
    Sha1Prefix \o EncodeToString(HmacSum(key, payload))

\* The loop with a slip: it returns after the first key (return false inside
\* the loop body).
TryKeysFirstOnly(hmacs, i, payload, sb) ==
    IF i > Len(hmacs) THEN [ok |-> FALSE, tried |-> <<>>]
    ELSE [ok |-> HmacSum(hmacs[i], payload) = sb, tried |-> <<hmacs[i]>>]

\* The loop over hmacs from index i on: the keys tried, and whether one matched.
RECURSIVE TryKeys(_, _, _, _)
TryKeys(hmacs, i, payload, sb) ==
    IF i > Len(hmacs) THEN [ok |-> FALSE, tried |-> <<>>]
    ELSE IF HmacSum(hmacs[i], payload) = sb THEN [ok |-> TRUE, tried |-> <<hmacs[i]>>]
    ELSE LET rest == TryKeys(hmacs, i + 1, payload, sb)
         IN  [ok |-> rest.ok, tried |-> <<hmacs[i]>> \o rest.tried]

\* ValidatePayload(payload, sig, tokenGenerator), with t the bytes the
\* tokenGenerator returns when it is invoked.  ok is the value returned; calls
\* counts the invocations of tokenGenerator, tried lists the keys an HMAC was
\* computed with, exit names the return statement taken.
ValidatePayload(payload, sig, t) ==
    LET event == JsonUnmarshal(payload)
        sb    == DecodeString(SubSeq(sig, 6, Len(sig)))
        h     == extractHmacs(GetFullName(event), t)
        loop  == TryKeys(h.hmacs, 1, payload, sb.bytes)
    IN  IF event.err
        THEN [ok |-> FALSE, calls |-> 0, tried |-> <<>>, exit |-> "payload"]
        ELSE IF ~HasPrefix(sig, Sha1Prefix)
        THEN [ok |-> FALSE, calls |-> 0, tried |-> <<>>, exit |-> "prefix"]
        ELSE IF sb.err
        THEN [ok |-> FALSE, calls |-> 0, tried |-> <<>>, exit |-> "hex"]
        ELSE IF h.err
        THEN [ok |-> FALSE, calls |-> h.calls, tried |-> <<>>, exit |-> "resolve"]
        ELSE [ok |-> loop.ok, calls |-> h.calls, tried |-> loop.tried,
              exit |-> IF loop.ok THEN "match" ELSE "nomatch"]

\* ------------------------------------------------------------ the requests

\* The scope maps stores are rendered from: any of the repository, organization
\* and wildcard scopes, each with any record list; and the one-scope map of an
\* organization no request comes from.
ScopeMaps ==
    UNION {[D -> TokenLists] : D \in SUBSET {ScopeKeys[1], ScopeKeys[2], ScopeKeys[3]}}
    \cup {[k \in {ScopeKeys[4]} |-> <<"A">>]}

\* Stores that do not parse as a scope map: a plain token, a truncated
\* mapping, a mapping whose value is no record list.
LegacyStores == {Bytes("mysecret"), <<"{", "org", ":">>, <<"{", "org", ":", "A", "}">>}

\* What the external collaborator writes into the store: a scope map, rendered
\* as a hierarchical document; or a text that is no such document (the empty
\* file, a legacy token).
Configs ==
    {[form |-> "map", scopes |-> m, text |-> <<>>] : m \in ScopeMaps}
    \cup {[form |-> "text", scopes |-> <<>>, text |-> t] : t \in {<<>>} \cup LegacyStores}

\* The bytes of the store written from config c.
StoreBytes(c) == IF c.form = "map" THEN RenderStore(c.scopes) ELSE c.text

\* The keys a sender signs with: a secret value, or the whole current store
\* when that is one of the KeyList.
SignKeys(t) ==
    {Bytes(SecretVals[i]) : i \in 1..Len(SecretVals)}
        \cup ({t} \cap {KeyList[i] : i \in 1..Len(KeyList)})

\* The headers a sender builds around a digest without PayloadSignature.
HeaderForms == {"sha256", "bare", "SHA1", "odd"}

MakeHeader(form, digest) ==
    LET hx == EncodeToString(digest)
    IN  CASE form = "sha256" -> Sha256Prefix \o hx
          [] form = "bare"   -> hx
          [] form = "SHA1"   -> <<83, 72, 65, 49, 61>> \o hx
          [] form = "odd"    -> Sha1Prefix \o SubSeq(hx, 1, Len(hx) - 1)

\* c with bit b (0..7) inverted.
FlipBit(c, b) ==
    LET w == 2 ^ b
    IN  IF (c \div w) % 2 = 1 THEN c - w ELSE c + w

NoRet == [ok |-> FALSE, calls |-> 0, tried |-> <<>>, exit |-> "none"]
NoTamper == [pos |-> 0, bit |-> 0, orig |-> <<>>]

VARIABLES
    config,     \* what the collaborator wrote the store from (not read by the code)
    store,      \* the bytes the provider returns
    payload,    \* the payload of the request at hand
    sig,        \* its signature header
    phase,      \* "idle", "received" (not yet validated) or "done"
    ret,        \* what the last ValidatePayload call did (NoRet before it)
    tamper      \* the bit flipped in an accepted header (NoTamper if none)

vars == <<config, store, payload, sig, phase, ret, tamper>>

Init ==
    /\ config \in Configs
    /\ store = StoreBytes(config)
    /\ payload = <<>>
    /\ sig = <<>>
    /\ phase = "idle"
    /\ ret = NoRet
    /\ tamper = NoTamper

\* The external collaborator reloads the secret store between two requests.
SetStore(c) ==
    /\ phase = "idle"
    /\ config' = c
    /\ store' = StoreBytes(c)
    /\ UNCHANGED <<payload, sig, phase, ret, tamper>>

\* A sender signs payload p with key k by PayloadSignature and sends both.
Sign(p, k) ==
    /\ phase = "idle"
    /\ payload' = p
    /\ sig' = PayloadSignature(p, k)
    /\ phase' = "received"
    /\ ret' = NoRet
    /\ tamper' = NoTamper
    /\ UNCHANGED <<config, store>>

\* A sender sends payload p with a header of another form around the digest.
Forge(p, k, form) ==
    /\ phase = "idle"
    /\ payload' = p
    /\ sig' = MakeHeader(form, HmacSum(k, p))
    /\ phase' = "received"
    /\ ret' = NoRet
    /\ tamper' = NoTamper
    /\ UNCHANGED <<config, store>>

\* The service validates the request at hand: one ValidatePayload call, the
\* provider returning the current store.
Validate ==
    /\ phase = "received"
    /\ ret' = ValidatePayload(payload, sig, store)
    /\ phase' = "done"
    /\ UNCHANGED <<config, store, payload, sig, tamper>>

\* An accepted request is sent again with bit b of character i of the
\* header's hex portion inverted.
Tamper(i, b) ==
    /\ phase = "done"
    /\ ret.ok
    /\ tamper = NoTamper
    /\ i > Len(Sha1Prefix)
    /\ sig' = [sig EXCEPT ![i] = FlipBit(sig[i], b)]
    /\ tamper' = [pos |-> i, bit |-> b, orig |-> sig]
    /\ phase' = "received"
    /\ ret' = NoRet
    /\ UNCHANGED <<config, store, payload>>

\* The service has answered; the request is forgotten (nothing is cached).
Reply ==
    /\ phase = "done"
    /\ payload' = <<>>
    /\ sig' = <<>>
    /\ phase' = "idle"
    /\ ret' = NoRet
    /\ tamper' = NoTamper
    /\ UNCHANGED <<config, store>>

Next ==
    \/ \E c \in Configs : SetStore(c)
    \/ \E p \in Payloads : \E k \in SignKeys(store) : Sign(p, k)
    \/ \E p \in Payloads : \E k \in SignKeys(store) : \E f \in HeaderForms : Forge(p, k, f)
    \/ Validate
    \/ \E i \in 1..Len(sig) : \E b \in 0..7 : Tamper(i, b)
    \/ Reply

Spec == Init /\ [][Next]_vars

\* ------------------------------------------------ vocabulary of the claims

\* The repository names requests are resolved for, and the organization of
\* each (the part before the first "/"), stated by hand: the three of the
\* payloads, the empty name of a payload without one, a name without "/".
RepoNames ==
    << <<"org", "/", "repo">>, <<"org", "/", "other">>, <<"unrelated", "/", "repo">>,
       <<>>, <<"org">> >>

OrgNames == << <<"org">>, <<"org">>, <<"unrelated">>, <<>>, <<"org">> >>

\* For each payload of PayloadList, the index in RepoNames of the repository it
\* names; 0 for a payload json.Unmarshal rejects.
PayloadRepo == <<1, 2, 3, 4, 4, 0, 0>>

\* The store at hand is a scope map: written from one, or the empty file,
\* which is the map without keys.
Hierarchical == config.form = "map" \/ store = <<>>

\* The scope map of a hierarchical store, as the collaborator wrote it.
Scopes == config.scopes

\* The scope the precedence rule selects in map m for RepoNames[i]: the exact
\* name, else the organization, else "*"; <<>> when m has none of them.
FirstScope(m, i) ==
    IF RepoNames[i] \in DOMAIN m THEN <<RepoNames[i]>>
    ELSE IF OrgNames[i] \in DOMAIN m THEN <<OrgNames[i]>>
    ELSE IF <<"*">> \in DOMAIN m THEN << <<"*">> >>
    ELSE <<>>

\* The secret values vals as keys.
AsKeys(vals) == [j \in 1..Len(vals) |-> Bytes(vals[j])]

AllKeys == {KeyList[i] : i \in 1..Len(KeyList)}

HexDigits == (48..57) \cup (97..102) \cup (65..70)

\* h is "sha1=" followed by an even number of hex digits.
WellFormedHeader(h) ==
    /\ Len(h) >= 5
    /\ \A i \in 1..5 : h[i] = Sha1Prefix[i]
    /\ (Len(h) - 5) % 2 = 0
    /\ \A i \in 6..Len(h) : h[i] \in HexDigits

Done == phase = "done"

\* The index in RepoNames of the repository the payload at hand names (0: rejected).
Repo == PayloadRepo[IndexIn(PayloadList, payload)]

\* What the resolver returns for the request at hand.
Resolved == extractHmacs(GetFullName(JsonUnmarshal(payload)), store)

\* The bytes the header at hand decodes to.
SigBytes == DecodeString(SubSeq(sig, 6, Len(sig))).bytes

\* Some key of the sequence keys yields the digest d for the payload at hand.
Matches(keys, d) == \E j \in 1..Len(keys) : HmacSum(keys[j], payload) = d

\* The store {org/repo: [A], org: [B], *: [C]}.
ExampleStore ==
    RenderStore([k \in {ScopeKeys[1], ScopeKeys[2], ScopeKeys[3]} |->
                    IF k = ScopeKeys[1] THEN <<"A">>
                    ELSE IF k = ScopeKeys[2] THEN <<"B">> ELSE <<"C">>])

\* The store {*: [A, B]}.
WildcardStore == RenderStore([k \in {ScopeKeys[3]} |-> <<"A", "B">>])

\* The store {someorg: [A]}.
SomeorgStore == RenderStore([k \in {ScopeKeys[4]} |-> <<"A">>])

\* ------------------------------------------------------------------ claims

\* C1 as stated: for every payload and secret, a request signed with
\* PayloadSignature is accepted whenever the store resolves, for the
\* payload's repository, to candidates that contain the secret.
C1_RoundTripAnyPayload ==
    Done =>
        \A k \in AllKeys :
            ( /\ sig = PayloadSignature(payload, k)
              /\ ~Resolved.err
              /\ \E j \in 1..Len(Resolved.hmacs) : Resolved.hmacs[j] = k )
            => ret.ok

\* C1 amended: the round trip holds for every payload that unmarshals as an
\* event (with or without a repository name) and every secret among the
\* candidates the store resolves to for the payload's repository.
C1_RoundTrip ==
    (Done /\ Repo # 0) =>
        \A k \in AllKeys :
            ( /\ sig = PayloadSignature(payload, k)
              /\ ~Resolved.err
              /\ \E j \in 1..Len(Resolved.hmacs) : Resolved.hmacs[j] = k )
            => ret.ok

\* C1 witness: a hierarchical store, a request signed with the second of two
\* candidates, accepted.
C1_Witness ==
    /\ Done /\ Repo # 0 /\ tamper = NoTamper /\ ret.ok
    /\ store \notin LegacyStores
    /\ Len(Resolved.hmacs) = 2
    /\ sig = PayloadSignature(payload, Resolved.hmacs[2])

\* C2: a store that parses as a scope map resolves to the records of exactly
\* one scope, the first present among the repository name, the organization
\* and "*", in their order; a request is then accepted exactly when its
\* signature is the HMAC of the payload under a record of that scope; and for
\* {org/repo: [A], org: [B], *: [C]} a request for org/repo validates only
\* with A, for org/other only with B, for unrelated/repo only with C.
C2_HierarchicalPrecedence ==
    Hierarchical =>
        /\ phase = "idle" => \A i \in 1..Len(RepoNames) :
              LET sc == FirstScope(Scopes, i)
                  h  == extractHmacs(RepoNames[i], store)
              IN  sc # <<>> => (~h.err /\ h.hmacs = AsKeys(Scopes[sc[1]]))
        /\ (Done /\ Repo # 0 /\ WellFormedHeader(sig)) =>
              LET sc == FirstScope(Scopes, Repo)
              IN  sc # <<>> => (ret.ok <=> Matches(AsKeys(Scopes[sc[1]]), SigBytes))
        /\ (Done /\ store = ExampleStore /\ Repo \in 1..3) =>
              \A n \in 1..3 :
                  sig = PayloadSignature(payload, Bytes(SecretVals[n]))
                  => (ret.ok <=> Repo = n)

\* C2 witness: with the example store, the request for org/other signed with
\* the organization's secret B is accepted.
C2_Witness ==
    /\ Done /\ store = ExampleStore /\ ret.ok
    /\ payload = PayloadList[2]
    /\ sig = PayloadSignature(payload, Bytes("B"))

\* C3: a store that parses as a scope map (the map without keys included) and
\* has none of the keys repository name, organization, "*" makes extractHmacs
\* return an error and no candidate, and ValidatePayload return false without
\* computing an HMAC: the store bytes are never used as a legacy token.
C3_ResolutionFailure ==
    Hierarchical =>
        /\ phase = "idle" => \A i \in 1..Len(RepoNames) :
              FirstScope(Scopes, i) = <<>> =>
                  LET h == extractHmacs(RepoNames[i], store)
                  IN  h.err /\ h.hmacs = <<>>
        /\ (Done /\ Repo # 0) =>
              (FirstScope(Scopes, Repo) = <<>> => (~ret.ok /\ ret.tried = <<>>))

\* C3 witness: the store {someorg: [A]}, a well-formed request for
\* unrelated/repo signed with the store bytes as the key, rejected at resolution.
C3_Witness ==
    /\ Done /\ store = SomeorgStore
    /\ payload = PayloadList[3]
    /\ sig = PayloadSignature(payload, store)
    /\ ~ret.ok /\ ret.exit = "resolve"

\* C4 as stated: a store that does not parse as a scope map is returned whole
\* as the sole candidate, without an error, for every repository name, and any
\* payload signed with it is accepted.
C4_LegacyAnyPayload ==
    store \in LegacyStores =>
        /\ phase = "idle" => \A i \in 1..Len(RepoNames) :
              LET h == extractHmacs(RepoNames[i], store)
              IN  ~h.err /\ h.hmacs = <<store>>
        /\ (Done /\ sig = PayloadSignature(payload, store)) => ret.ok

\* C4 amended: the same, the acceptance for every payload that unmarshals as
\* an event.
C4_LegacyFallback ==
    store \in LegacyStores =>
        /\ phase = "idle" => \A i \in 1..Len(RepoNames) :
              LET h == extractHmacs(RepoNames[i], store)
              IN  ~h.err /\ h.hmacs = <<store>>
        /\ (Done /\ Repo # 0 /\ sig = PayloadSignature(payload, store)) => ret.ok

\* C4 witness: the store "mysecret", an event signed with it, accepted.
C4_Witness ==
    /\ Done /\ store = Bytes("mysecret") /\ Repo # 0
    /\ sig = PayloadSignature(payload, store)
    /\ ret.ok /\ ret.tried = <<store>>

\* C5 as stated: every ValidatePayload call invokes the provider exactly once.
C5_ProviderOncePerCall ==
    Done => ret.calls = 1

\* C5 amended: a call invokes the provider at most once: exactly once when the
\* payload unmarshals and the header is "sha1=" followed by valid hex (the
\* paths resolution failure, no match, match), and not at all when it returns
\* at a malformed payload or a malformed header.
C5_ProviderAtMostOnce ==
    Done =>
        /\ ret.calls = (IF Repo # 0 /\ WellFormedHeader(sig) THEN 1 ELSE 0)
        /\ (ret.exit \in {"payload", "prefix", "hex"} <=> ret.calls = 0)
        /\ (ret.exit \in {"resolve", "nomatch", "match"} <=> ret.calls = 1)

\* C5 witness: a call on a payload that does not unmarshal, with a correctly
\* formed header, returned without invoking the provider.
C5_Witness ==
    /\ Done /\ Repo = 0 /\ WellFormedHeader(sig)
    /\ ret.calls = 0 /\ ret.exit = "payload"

\* C6 as stated: a payload that is not valid JSON, or is valid JSON without a
\* repository name, is rejected for every signature and every store.
C6_NoRepositoryRejected ==
    (Done /\ Repo \in {0, 4}) => ~ret.ok

\* C6 amended: a payload json.Unmarshal rejects (truncated, or a repository of
\* the wrong type) is rejected for every signature and store; a payload that
\* unmarshals without a repository name is resolved with the empty repository
\* name and accepted exactly when the header is well formed and its signature
\* is the HMAC under a candidate the store resolves to for that name.
C6_MalformedPayload ==
    /\ (Done /\ Repo = 0) => (~ret.ok /\ ret.exit = "payload")
    /\ (Done /\ Repo = 4) =>
          LET h == extractHmacs(<<>>, store)
          IN  ret.ok <=> (WellFormedHeader(sig) /\ ~h.err /\ Matches(h.hmacs, SigBytes))

\* C6 witness: the payload {} signed with the wildcard secret of a
\* hierarchical store, accepted.
C6_Witness ==
    /\ Done /\ payload = PayloadList[4] /\ ret.ok
    /\ store = WildcardStore
    /\ sig = PayloadSignature(payload, Bytes("A"))

\* The flipped bit of a tampered header is the case bit of a hex letter.
CaseFlip ==
    /\ tamper.bit = 5
    /\ tamper.orig[tamper.pos] \in (97..102) \cup (65..70)

\* The tampered header decodes to the HMAC of a candidate that is not the
\* digest of the accepted header.
OtherCandidate ==
    /\ WellFormedHeader(sig)
    /\ SigBytes # DecodeString(SubSeq(tamper.orig, 6, Len(tamper.orig))).bytes
    /\ ~Resolved.err
    /\ Matches(Resolved.hmacs, SigBytes)

\* C7 as stated: an accepted header with one bit of its hex portion flipped is
\* rejected, for the same payload and store.
C7_AnyBitFlipRejected ==
    (Done /\ tamper # NoTamper) => ~ret.ok

\* C7 amended: an accepted header with one bit of its hex portion flipped is
\* rejected, except when the flip only changes the case of a hex letter (the
\* header decodes to the same bytes and is accepted again) or when the flipped
\* digest is the HMAC of the payload under another resolved candidate.
C7_BitFlip ==
    (Done /\ tamper # NoTamper) => (ret.ok <=> (CaseFlip \/ OtherCandidate))

\* C7 witness: a flip that turns a hex digit into another hex digit, the
\* header still well formed, rejected for want of a match.
C7_Witness ==
    /\ Done /\ tamper # NoTamper /\ ~CaseFlip
    /\ WellFormedHeader(sig)
    /\ ~ret.ok /\ ret.exit = "nomatch"

\* C8: once payload and header parse and resolution succeeds, the candidates
\* are tried in their stored order up to the first match, and the call returns
\* true exactly when a candidate's HMAC of the payload is the decoded
\* signature; with the store {*: [A, B]} an event signed with A or with B is
\* accepted.
C8_MultiCandidate ==
    /\ (Done /\ Repo # 0 /\ WellFormedHeader(sig) /\ ~Resolved.err) =>
          /\ ret.ok <=> Matches(Resolved.hmacs, SigBytes)
          /\ \E n \in 0..Len(Resolved.hmacs) :
                /\ ret.tried = SubSeq(Resolved.hmacs, 1, n)
                /\ \A j \in 1..(n - 1) : HmacSum(Resolved.hmacs[j], payload) # SigBytes
                /\ (IF ret.ok THEN n >= 1 /\ HmacSum(Resolved.hmacs[n], payload) = SigBytes
                              ELSE n = Len(Resolved.hmacs))
    /\ (Done /\ Repo # 0 /\ store = WildcardStore) =>
          \A n \in 1..2 :
              sig = PayloadSignature(payload, Bytes(SecretVals[n])) => ret.ok
    /\ (Hierarchical /\ phase = "idle") =>
          \A k \in DOMAIN Scopes :
              extractTokens([j \in 1..Len(Scopes[k]) |-> [Value |-> Scopes[k][j]]])
                  = AsKeys(Scopes[k])

\* C8 witness: the store {*: [A, B]}, an event signed with B, accepted after A
\* was tried first.
C8_Witness ==
    /\ Done /\ store = WildcardStore /\ Repo # 0
    /\ sig = PayloadSignature(payload, Bytes("B"))
    /\ ret.ok /\ ret.tried = <<Bytes("A"), Bytes("B")>>

\* C9: a header that does not begin with "sha1=" is rejected, for every
\* payload and store, also when its hex digits are the HMAC of the payload
\* under a resolved candidate.
C9_PrefixEnforcement ==
    (Done /\ (Len(sig) < 5 \/ \E i \in 1..5 : sig[i] # Sha1Prefix[i])) => ~ret.ok

\* C9 witness: an event with the header "sha256=<hex>", the hex the HMAC under
\* a resolved candidate, rejected.
C9_Witness ==
    /\ Done /\ Repo # 0 /\ ~ret.ok
    /\ ~Resolved.err
    /\ \E j \in 1..Len(Resolved.hmacs) :
          sig = MakeHeader("sha256", HmacSum(Resolved.hmacs[j], payload))

=============================================================================
